---- MODULE Spec2Model ----
(***************************************************************************)
(* Second-shortest-path core of SSPAC: TwoDistanceDijkstra                 *)
(* (algorithms/dijkstra_two_dist.py) and StateExtendedSPFA                 *)
(* (algorithms/spfa_extended.py) over an adjacency-list graph built as     *)
(* utils/graph.py builds it.  One algorithm instance per behaviour; the    *)
(* instance answers a sequence of queries, one main-loop iteration per     *)
(* step.                                                                   *)
(***************************************************************************)
EXTENDS Integers, Sequences, FiniteSets

\* ------------------------------------------------------------------ bounds
NumNodes == 2
MaxWeight == 2
MaxEdges == 2
\* ceiling on the main-loop iterations of one query; no search comes near it
MaxIterations == 40
\* the directed multigraphs: edge lists of this length, weights up to this one
ParallelEdges == 3
HeavyWeight == 3

\* float('inf'): larger than every distance a search can form
INF == 1000000

Nodes == 0 .. (NumNodes - 1)
Weights == 1 .. MaxWeight
\* the queries put to an instance: every pair of nodes, and pairs with an id
\* above or below [0, n) as source, as target, or as both
Queries ==
  (Nodes \X Nodes) \cup {<<NumNodes, 0>>, <<0, NumNodes>>, <<0 - 1, NumNodes>>}

VARIABLES
  graph,     \* self.graph
  algo,      \* the class of the instance
  pc,        \* where the instance is: idle, loop, returned, raised
  source,    \* arguments of the current or last call
  target,
  d1,        \* locals of find_second_shortest
  d2,
  pq,
  broke,
  queue,
  in_queue,
  stats,     \* the counters of the instance
  result,    \* the returned pair
  tie_free,  \* history: every pop of this query took the least tuple
  reused,    \* history: a query had returned before this call began
  hist       \* history of the current query: the entry last popped, the values
             \* each d1[v] has held, the distances each (node, rank) had its
             \* edges relaxed from, the pops, pushes and label changes counted
             \* as they happen, and the counters at the last return
VARIABLE
  other      \* a second call of find_second_shortest on the same instance, in
             \* flight while the first one is: its arguments, its locals, the
             \* pair it returned and the counters read at its return

vars == <<graph, algo, pc, source, target, d1, d2, pq, broke, queue,
          in_queue, stats, result, tie_free, reused, hist, other>>

\* ------------------------------------------------------------------ graph
\* an edge [u, v] with its weight; validate_graph admits no self-loop
Edges == {e \in Nodes \X Nodes \X Weights : e[1] # e[2]}

EdgeLists == UNION {[1 .. k -> Edges] : k \in 0 .. MaxEdges}

\* build_adjacency_list(edges, n, weights, directed), folded over the edge list
RECURSIVE build_adjacency_list(_, _, _)
build_adjacency_list(edges, directed, g) ==
  IF edges = <<>> THEN g
  ELSE LET u == Head(edges)[1]
           v == Head(edges)[2]
           weight == Head(edges)[3]
           g1 == [g EXCEPT ![u] = Append(@, <<v, weight>>)]
           g2 == IF ~directed THEN [g1 EXCEPT ![v] = Append(@, <<u, weight>>)] ELSE g1
       IN build_adjacency_list(Tail(edges), directed, g2)

\* graph = {i: [] for i in range(n)}
EmptyGraph == [i \in Nodes |-> <<>>]

Graphs == {build_adjacency_list(es, dir, EmptyGraph) : es \in EdgeLists, dir \in BOOLEAN}

\* ------------------------------------------------------- TwoDistanceDijkstra
DijkstraZero == [pq_operations |-> 0, edge_relaxations |-> 0, iterations |-> 0]

B2N(b) == IF b THEN 1 ELSE 0

\* Python tuple order on (distance, node, is_second)
TupleLess(a, b) ==
  \/ a[1] < b[1]
  \/ a[1] = b[1] /\ a[2] < b[2]
  \/ a[1] = b[1] /\ a[2] = b[2] /\ B2N(a[3]) < B2N(b[3])

\* a push that appends to the list and never restores the heap order
heappush_Append(h, e) == Append(h, e)

\* heapq.heappush: the heap is kept as the sorted sequence of its entries
RECURSIVE heappush(_, _)
heappush(h, e) ==
  IF h = <<>> THEN <<e>>
  ELSE IF TupleLess(e, Head(h)) THEN <<e>> \o h
  ELSE <<Head(h)>> \o heappush(Tail(h), e)

RemoveAt(s, i) == SubSeq(s, 1, i - 1) \o SubSeq(s, i + 1, Len(s))

\* _relax_edge that forgets to demote the old primary distance
Dijkstra_relax_edge_NoDemote(fr, v, weight, current_dist) ==
  LET new_dist == current_dist + weight
      f1 == [fr EXCEPT !.stats.edge_relaxations = @ + 1]
  IN IF new_dist < f1.d1[v]
     THEN [f1 EXCEPT !.d1[v] = new_dist,
                     !.pq = heappush(@, <<new_dist, v, FALSE>>),
                     !.stats.pq_operations = @ + 1]
     ELSE IF f1.d1[v] < new_dist /\ new_dist < f1.d2[v]
     THEN [f1 EXCEPT !.d2[v] = new_dist,
                     !.pq = heappush(@, <<new_dist, v, TRUE>>),
                     !.stats.pq_operations = @ + 1]
     ELSE f1

\* _relax_edge that takes every edge for an edge of weight 1
Dijkstra_relax_edge_UnitWeight(fr, v, weight, current_dist) ==
  LET new_dist == current_dist + 1
      f1 == [fr EXCEPT !.stats.edge_relaxations = @ + 1]
  IN IF new_dist < f1.d1[v]
     THEN LET old == f1.d1[v]
              f2 == [f1 EXCEPT !.d2[v] = old,
                               !.d1[v] = new_dist,
                               !.pq = heappush(@, <<new_dist, v, FALSE>>),
                               !.stats.pq_operations = @ + 1]
          IN IF old # INF
             THEN [f2 EXCEPT !.pq = heappush(@, <<old, v, TRUE>>),
                             !.stats.pq_operations = @ + 1]
             ELSE f2
     ELSE IF f1.d1[v] < new_dist /\ new_dist < f1.d2[v]
     THEN [f1 EXCEPT !.d2[v] = new_dist,
                     !.pq = heappush(@, <<new_dist, v, TRUE>>),
                     !.stats.pq_operations = @ + 1]
     ELSE f1

\* _relax_edge whose second branch forgets the test new_dist < d2[v]
Dijkstra_relax_edge_NoUpperTest(fr, v, weight, current_dist) ==
  LET new_dist == current_dist + weight
      f1 == [fr EXCEPT !.stats.edge_relaxations = @ + 1]
  IN IF new_dist < f1.d1[v]
     THEN LET old == f1.d1[v]
              f2 == [f1 EXCEPT !.d2[v] = old,
                               !.d1[v] = new_dist,
                               !.pq = heappush(@, <<new_dist, v, FALSE>>),
                               !.stats.pq_operations = @ + 1]
          IN IF old # INF
             THEN [f2 EXCEPT !.pq = heappush(@, <<old, v, TRUE>>),
                             !.stats.pq_operations = @ + 1]
             ELSE f2
     ELSE IF f1.d1[v] < new_dist
     THEN [f1 EXCEPT !.d2[v] = new_dist,
                     !.pq = heappush(@, <<new_dist, v, TRUE>>),
                     !.stats.pq_operations = @ + 1]
     ELSE f1

\* TwoDistanceDijkstra._relax_edge on the frame fr = [d1, d2, pq, stats]
Dijkstra_relax_edge(fr, v, weight, current_dist) ==
  LET new_dist == current_dist + weight
      f1 == [fr EXCEPT !.stats.edge_relaxations = @ + 1]
  IN IF new_dist < f1.d1[v]
     THEN LET old == f1.d1[v]
              f2 == [f1 EXCEPT !.d2[v] = old,
                               !.d1[v] = new_dist,
                               !.pq = heappush(@, <<new_dist, v, FALSE>>),
                               !.stats.pq_operations = @ + 1]
          IN IF old # INF
             THEN [f2 EXCEPT !.pq = heappush(@, <<old, v, TRUE>>),
                             !.stats.pq_operations = @ + 1]
             ELSE f2
     ELSE IF f1.d1[v] < new_dist /\ new_dist < f1.d2[v]
     THEN [f1 EXCEPT !.d2[v] = new_dist,
                     !.pq = heappush(@, <<new_dist, v, TRUE>>),
                     !.stats.pq_operations = @ + 1]
     ELSE f1

\* for v, weight in self.graph[u]: self._relax_edge(...)
RECURSIVE Dijkstra_relax_all(_, _, _)
Dijkstra_relax_all(fr, adj, dist) ==
  IF adj = <<>> THEN fr
  ELSE Dijkstra_relax_all(Dijkstra_relax_edge(fr, Head(adj)[1], Head(adj)[2], dist),
                          Tail(adj), dist)

\* a reset that leaves _iterations alone
Dijkstra_reset_KeepIterations(st) ==
  [st EXCEPT !.pq_operations = 0, !.edge_relaxations = 0]

\* lines 75-78: the counters of the instance are set back to zero
Dijkstra_reset(st) ==
  [st EXCEPT !.pq_operations = 0, !.edge_relaxations = 0, !.iterations = 0]

\* lines 75-89: reset counters, fresh labels, the source entry
Dijkstra_begin(g, st, s) ==
  [d1 |-> [v \in DOMAIN g |-> IF v = s THEN 0 ELSE INF],
   d2 |-> [v \in DOMAIN g |-> INF],
   pq |-> <<<<0, s, FALSE>>>>,
   stats |-> [Dijkstra_reset(st) EXCEPT !.pq_operations = @ + 1],
   broke |-> FALSE]

\* "while pq" is over: the heap is empty or the loop was left by break
Dijkstra_loop_done(fr) == fr.pq = <<>> \/ fr.broke

\* an iteration that leaves the loop on any entry of the target, whatever its rank
Dijkstra_iteration_BreakAnyRank(g, t, fr, i) ==
  LET e == fr.pq[i]
      dist == e[1]
      u == e[2]
      is_second == e[3]
      f1 == [fr EXCEPT !.pq = RemoveAt(@, i),
                       !.stats.iterations = @ + 1,
                       !.stats.pq_operations = @ + 1]
  IN IF u = t THEN [f1 EXCEPT !.broke = TRUE]
     ELSE IF is_second /\ dist > f1.d2[u] THEN f1
     ELSE IF ~is_second /\ dist > f1.d1[u] THEN f1
     ELSE Dijkstra_relax_all(f1, g[u], dist)

\* one iteration of the main loop popping the i-th heap entry (i = 1: heappop)
Dijkstra_iteration(g, t, fr, i) ==
  LET e == fr.pq[i]
      dist == e[1]
      u == e[2]
      is_second == e[3]
      f1 == [fr EXCEPT !.pq = RemoveAt(@, i),
                       !.stats.iterations = @ + 1,
                       !.stats.pq_operations = @ + 1]
  IN IF u = t /\ is_second THEN [f1 EXCEPT !.broke = TRUE]
     ELSE IF is_second /\ dist > f1.d2[u] THEN f1
     ELSE IF ~is_second /\ dist > f1.d1[u] THEN f1
     ELSE Dijkstra_relax_all(f1, g[u], dist)

\* --------------------------------------------------------- StateExtendedSPFA
SPFAZero ==
  [enqueue_operations |-> 0, dequeue_operations |-> 0, push_count |-> 0,
   pop_count |-> 0, edge_relaxations |-> 0, d1_updates |-> 0,
   d2_updates |-> 0, iterations |-> 0]

\* in_queue[v][0] / in_queue[v][1] are kept as positions 1 / 2
Slot(is_second) == B2N(is_second) + 1

\* an enqueue that forgets to set the pending flag
SPFA_enqueue_NoFlag(fr, v, dist, is_second) ==
  [fr EXCEPT !.queue = Append(@, <<v, dist, is_second>>),
             !.stats.enqueue_operations = @ + 1,
             !.stats.push_count = @ + 1]

\* queue.append(...) with the flag and the two enqueue counters
SPFA_enqueue(fr, v, dist, is_second) ==
  [fr EXCEPT !.queue = Append(@, <<v, dist, is_second>>),
             !.in_queue[v][Slot(is_second)] = TRUE,
             !.stats.enqueue_operations = @ + 1,
             !.stats.push_count = @ + 1]

\* _relax_edge whose second branch admits new_dist = d1[v]
SPFA_relax_edge_NonStrict(fr, v, weight, current_dist) ==
  LET new_dist == current_dist + weight
      f1 == [fr EXCEPT !.stats.edge_relaxations = @ + 1]
  IN IF new_dist < f1.d1[v]
     THEN LET old_d1 == f1.d1[v]
              f2 == [f1 EXCEPT !.d2[v] = old_d1,
                               !.d1[v] = new_dist,
                               !.stats.d1_updates = @ + 1]
              f3 == IF ~f2.in_queue[v][1]
                    THEN SPFA_enqueue(f2, v, new_dist, FALSE)
                    ELSE f2
          IN IF f3.d2[v] # INF /\ ~f3.in_queue[v][2]
             THEN LET f4 == SPFA_enqueue(f3, v, f3.d2[v], TRUE)
                  IN IF old_d1 # INF
                     THEN [f4 EXCEPT !.stats.d2_updates = @ + 1]
                     ELSE f4
             ELSE f3
     ELSE IF f1.d1[v] <= new_dist /\ new_dist < f1.d2[v]
     THEN LET f2 == [f1 EXCEPT !.d2[v] = new_dist,
                               !.stats.d2_updates = @ + 1]
          IN IF ~f2.in_queue[v][2]
             THEN SPFA_enqueue(f2, v, new_dist, TRUE)
             ELSE f2
     ELSE f1

\* StateExtendedSPFA._relax_edge on the frame fr = [d1, d2, queue, in_queue, stats]
SPFA_relax_edge(fr, v, weight, current_dist) ==
  LET new_dist == current_dist + weight
      f1 == [fr EXCEPT !.stats.edge_relaxations = @ + 1]
  IN IF new_dist < f1.d1[v]
     THEN LET old_d1 == f1.d1[v]
              f2 == [f1 EXCEPT !.d2[v] = old_d1,
                               !.d1[v] = new_dist,
                               !.stats.d1_updates = @ + 1]
              f3 == IF ~f2.in_queue[v][1]
                    THEN SPFA_enqueue(f2, v, new_dist, FALSE)
                    ELSE f2
          IN IF f3.d2[v] # INF /\ ~f3.in_queue[v][2]
             THEN LET f4 == SPFA_enqueue(f3, v, f3.d2[v], TRUE)
                  IN IF old_d1 # INF
                     THEN [f4 EXCEPT !.stats.d2_updates = @ + 1]
                     ELSE f4
             ELSE f3
     ELSE IF f1.d1[v] < new_dist /\ new_dist < f1.d2[v]
     THEN LET f2 == [f1 EXCEPT !.d2[v] = new_dist,
                               !.stats.d2_updates = @ + 1]
          IN IF ~f2.in_queue[v][2]
             THEN SPFA_enqueue(f2, v, new_dist, TRUE)
             ELSE f2
     ELSE f1

\* for v, weight in self.graph[u]: self._relax_edge(...)
RECURSIVE SPFA_relax_all(_, _, _)
SPFA_relax_all(fr, adj, dist) ==
  IF adj = <<>> THEN fr
  ELSE SPFA_relax_all(SPFA_relax_edge(fr, Head(adj)[1], Head(adj)[2], dist),
                      Tail(adj), dist)

\* lines 80-88: the counters of the instance are set back to zero
SPFA_reset(st) ==
  [st EXCEPT !.enqueue_operations = 0, !.dequeue_operations = 0,
             !.push_count = 0, !.pop_count = 0, !.edge_relaxations = 0,
             !.d1_updates = 0, !.d2_updates = 0, !.iterations = 0]

\* a loop that also stops once the secondary label of the target is known
SPFA_loop_done_TargetLabelled(fr) == fr.queue = <<>> \/ fr.d2[target] # INF

\* "while queue" is over
SPFA_loop_done(fr) == fr.queue = <<>>

\* lines 80-105: reset counters, fresh labels and flags, the source entry
SPFA_begin(g, st, s) ==
  [d1 |-> [v \in DOMAIN g |-> IF v = s THEN 0 ELSE INF],
   d2 |-> [v \in DOMAIN g |-> INF],
   queue |-> <<<<s, 0, FALSE>>>>,
   in_queue |-> [v \in DOMAIN g |-> IF v = s THEN <<TRUE, FALSE>> ELSE <<FALSE, FALSE>>],
   stats |-> [SPFA_reset(st) EXCEPT !.enqueue_operations = @ + 1,
                                    !.push_count = @ + 1]]

\* an iteration that reads queue[0] and never removes it
SPFA_iteration_NoPop(g, fr) ==
  LET e == Head(fr.queue)
      u == e[1]
      dist == e[2]
      is_second == e[3]
      f1 == [fr EXCEPT !.stats.iterations = @ + 1,
                       !.stats.dequeue_operations = @ + 1,
                       !.stats.pop_count = @ + 1,
                       !.in_queue[u][Slot(is_second)] = FALSE]
  IN IF is_second /\ dist > f1.d2[u] THEN f1
     ELSE IF ~is_second /\ dist > f1.d1[u] THEN f1
     ELSE SPFA_relax_all(f1, g[u], dist)

\* one iteration of the main loop: popleft, clear the flag, staleness, relax
SPFA_iteration(g, fr) ==
  LET e == Head(fr.queue)
      u == e[1]
      dist == e[2]
      is_second == e[3]
      f1 == [fr EXCEPT !.queue = Tail(@),
                       !.stats.iterations = @ + 1,
                       !.stats.dequeue_operations = @ + 1,
                       !.stats.pop_count = @ + 1,
                       !.in_queue[u][Slot(is_second)] = FALSE]
  IN IF is_second /\ dist > f1.d2[u] THEN f1
     ELSE IF ~is_second /\ dist > f1.d1[u] THEN f1
     ELSE SPFA_relax_all(f1, g[u], dist)

\* ---------------------------------------------------------------- results
\* Optional[int]: None is kept apart from every distance
None == 0 - 1

\* a result that reports an unreached distance as zero
Opt_Zero(d) == IF d # INF THEN d ELSE 0

\* lines 118-119 / 133-134: d if d != INF else None
Opt(d) == IF d # INF THEN d ELSE None

\* shortest, second_shortest = d1[target], d2[target] (None when INF)
ResultOf(fr, t) == <<Opt(fr.d1[t]), Opt(fr.d2[t])>>

\* a whole query of a TwoDistanceDijkstra instance, heappop order
RECURSIVE Dijkstra_loop(_, _, _)
Dijkstra_loop(g, t, fr) ==
  IF Dijkstra_loop_done(fr) THEN fr
  ELSE Dijkstra_loop(g, t, Dijkstra_iteration(g, t, fr, 1))

Dijkstra_find_second_shortest(g, st, s, t) == Dijkstra_loop(g, t, Dijkstra_begin(g, st, s))

\* a whole query of a StateExtendedSPFA instance
RECURSIVE SPFA_loop(_, _)
SPFA_loop(g, fr) ==
  IF SPFA_loop_done(fr) THEN fr
  ELSE SPFA_loop(g, SPFA_iteration(g, fr))

SPFA_find_second_shortest(g, st, s) == SPFA_loop(g, SPFA_begin(g, st, s))

\* a check that forgets the target
ValidQuery_SourceOnly(g, s, t) == s \in DOMAIN g

\* lines 70-73 of both classes: both arguments are keys of self.graph
ValidQuery(g, s, t) == s \in DOMAIN g /\ t \in DOMAIN g

\* ---------------------------------------------------------------- history
\* the popped entry is neither the early-termination entry nor stale: lines 99-110
Dijkstra_relaxes(t, fr, i) ==
  LET e == fr.pq[i]
  IN /\ ~(e[2] = t /\ e[3])
     /\ ~(e[3] /\ e[1] > fr.d2[e[2]])
     /\ ~(~e[3] /\ e[1] > fr.d1[e[2]])

\* the dequeued entry is not stale: lines 122-125
SPFA_relaxes(fr) ==
  LET e == Head(fr.queue)
  IN /\ ~(e[3] /\ e[2] > fr.d2[e[1]])
     /\ ~(~e[3] /\ e[2] > fr.d1[e[1]])

\* the frames of one Dijkstra iteration: after the pop (index 0) and after each
\* _relax_edge call of "for v, weight in self.graph[u]" (index k)
Dijkstra_trace(g, t, fr, i) ==
  LET e == fr.pq[i]
      f1 == [fr EXCEPT !.pq = RemoveAt(@, i),
                       !.stats.iterations = @ + 1,
                       !.stats.pq_operations = @ + 1]
  IN IF Dijkstra_relaxes(t, fr, i)
     THEN [k \in 0 .. Len(g[e[2]]) |-> Dijkstra_relax_all(f1, SubSeq(g[e[2]], 1, k), e[1])]
     ELSE [k \in 0 .. 0 |-> f1]

\* the frames of one SPFA iteration, likewise
SPFA_trace(g, fr) ==
  LET e == Head(fr.queue)
      f1 == [fr EXCEPT !.queue = Tail(@),
                       !.stats.iterations = @ + 1,
                       !.stats.dequeue_operations = @ + 1,
                       !.stats.pop_count = @ + 1,
                       !.in_queue[e[1]][Slot(e[3])] = FALSE]
  IN IF SPFA_relaxes(fr)
     THEN [k \in 0 .. Len(g[e[1]]) |-> SPFA_relax_all(f1, SubSeq(g[e[1]], 1, k), e[2])]
     ELSE [k \in 0 .. 0 |-> f1]

HistZero(g) ==
  [popped |-> <<>>,
   d1_seen |-> [v \in DOMAIN g |-> {}],
   settled |-> [v \in DOMAIN g |-> <<<<>>, <<>>>>],
   pops |-> 0,
   pushes |-> 0,
   degree_sum |-> 0,
   d1_changes |-> 0,
   d2_changes |-> 0,
   last_stats |-> <<>>]

\* d1[source] = 0 and the source entry is pushed at the start of a query
HistBegin(g, s) == [HistZero(g) EXCEPT !.d1_seen[s] = {0}, !.pushes = 1]

\* the counts after an iteration that went through the frames of trace, pushed
\* pushed entries and relaxed degree edges: one pop, the relaxations that changed
\* some d1[v], the relaxations that gave some d2[v] another finite value
HistCount(h, trace, pushed, degree) ==
  [h EXCEPT !.pops = @ + 1,
            !.pushes = @ + pushed,
            !.degree_sum = @ + degree,
            !.d1_changes = @ + Cardinality({k \in DOMAIN trace \ {0} :
                                 trace[k].d1 # trace[k - 1].d1}),
            !.d2_changes = @ + Cardinality({k \in DOMAIN trace \ {0} :
                                 \E v \in DOMAIN trace[k].d2 :
                                   /\ trace[k].d2[v] # trace[k - 1].d2[v]
                                   /\ trace[k].d2[v] # INF})]

\* the history after an iteration that popped entry (node u, distance dist) and
\* went through the frames of trace
HistStep(h, entry, u, dist, is_second, relaxes, trace) ==
  [h EXCEPT !.popped = entry,
            !.d1_seen = [v \in DOMAIN @ |->
                           @[v] \cup ({trace[k].d1[v] : k \in DOMAIN trace} \ {INF})],
            !.settled[u][Slot(is_second)] = IF relaxes THEN Append(@, dist) ELSE @]

\* ------------------------------------------------------------------ state
\* no second call is in flight
NoCall ==
  [pc |-> "idle", source |-> 0, target |-> 0, d1 |-> <<>>, d2 |-> <<>>,
   pq |-> <<>>, broke |-> FALSE, queue |-> <<>>, in_queue |-> <<>>,
   result |-> <<>>, stats_seen |-> <<>>]

\* the instance after __init__
Init ==
  /\ graph \in Graphs
  /\ algo \in {"dijkstra", "spfa"}
  /\ pc = "idle"
  /\ source = 0
  /\ target = 0
  /\ d1 = [v \in Nodes |-> INF]
  /\ d2 = [v \in Nodes |-> INF]
  /\ pq = <<>>
  /\ broke = FALSE
  /\ queue = <<>>
  /\ in_queue = [v \in Nodes |-> <<FALSE, FALSE>>]
  /\ stats = IF algo = "dijkstra" THEN DijkstraZero ELSE SPFAZero
  /\ result = <<>>
  /\ tie_free = TRUE
  /\ reused = FALSE
  /\ hist = HistZero(graph)
  /\ other = NoCall

Callable == pc \in {"idle", "returned", "raised"}

\* a rejected call that resets the counters before it tests its arguments
QueryInvalid_ResetFirst ==
  /\ Callable
  /\ \E q \in Queries :
       /\ ~ValidQuery(graph, q[1], q[2])
       /\ source' = q[1]
       /\ target' = q[2]
  /\ pc' = "raised"
  /\ result' = <<>>
  /\ stats' = IF algo = "dijkstra" THEN Dijkstra_reset(stats) ELSE SPFA_reset(stats)
  /\ UNCHANGED <<other, graph, algo, d1, d2, pq, broke, queue, in_queue,
                 tie_free, reused, hist>>

\* find_second_shortest with source or target not in self.graph: raise ValueError
QueryInvalid ==
  /\ Callable
  /\ \E q \in Queries :
       /\ ~ValidQuery(graph, q[1], q[2])
       /\ source' = q[1]
       /\ target' = q[2]
  /\ pc' = "raised"
  /\ result' = <<>>
  /\ UNCHANGED <<other, graph, algo, d1, d2, pq, broke, queue, in_queue, stats,
                 tie_free, reused, hist>>

\* TwoDistanceDijkstra.find_second_shortest up to the first loop test
DijkstraBegin ==
  /\ algo = "dijkstra"
  /\ Callable
  /\ \E q \in Queries :
       /\ ValidQuery(graph, q[1], q[2])
       /\ LET fr == Dijkstra_begin(graph, stats, q[1])
          IN /\ source' = q[1]
             /\ target' = q[2]
             /\ d1' = fr.d1
             /\ d2' = fr.d2
             /\ pq' = fr.pq
             /\ broke' = fr.broke
             /\ stats' = fr.stats
  /\ pc' = "loop"
  /\ result' = <<>>
  /\ tie_free' = TRUE
  /\ reused' = (reused \/ pc = "returned")
  /\ hist' = HistBegin(graph, source')
  /\ UNCHANGED <<other, graph, algo, queue, in_queue>>

DijkstraFrame == [d1 |-> d1, d2 |-> d2, pq |-> pq, stats |-> stats, broke |-> broke]

DijkstraPop(i) ==
  LET fr == Dijkstra_iteration(graph, target, DijkstraFrame, i)
  IN /\ d1' = fr.d1
     /\ d2' = fr.d2
     /\ pq' = fr.pq
     /\ broke' = fr.broke
     /\ stats' = fr.stats
     /\ hist' = HistCount(HistStep(hist, pq[i], pq[i][2], pq[i][1], pq[i][3],
                                   Dijkstra_relaxes(target, DijkstraFrame, i),
                                   Dijkstra_trace(graph, target, DijkstraFrame, i)),
                          Dijkstra_trace(graph, target, DijkstraFrame, i),
                          Len(fr.pq) - (Len(pq) - 1),
                          IF Dijkstra_relaxes(target, DijkstraFrame, i)
                          THEN Len(graph[pq[i][2]]) ELSE 0)
     /\ UNCHANGED <<other, graph, algo, pc, source, target, queue, in_queue, result,
                    reused>>

\* one iteration of "while pq": heappop takes the least tuple
DijkstraStep ==
  /\ algo = "dijkstra"
  /\ pc = "loop"
  /\ ~Dijkstra_loop_done(DijkstraFrame)
  /\ stats.iterations < MaxIterations
  /\ DijkstraPop(1)
  /\ UNCHANGED tie_free

\* the same iteration under another tie order: some other entry of least distance
DijkstraStepTie ==
  /\ algo = "dijkstra"
  /\ pc = "loop"
  /\ ~Dijkstra_loop_done(DijkstraFrame)
  /\ stats.iterations < MaxIterations
  /\ \E i \in 2 .. Len(pq) :
       /\ pq[i][1] = pq[1][1]
       /\ DijkstraPop(i)
  /\ tie_free' = FALSE

\* lines 117-126: the loop has ended, the pair is returned
DijkstraReturn ==
  /\ algo = "dijkstra"
  /\ pc = "loop"
  /\ Dijkstra_loop_done(DijkstraFrame)
  /\ result' = ResultOf(DijkstraFrame, target)
  /\ pc' = "returned"
  /\ hist' = [hist EXCEPT !.last_stats = <<stats>>]
  /\ UNCHANGED <<other, graph, algo, source, target, d1, d2, pq, broke, queue,
                 in_queue, stats, tie_free, reused>>

SPFAFrame == [d1 |-> d1, d2 |-> d2, queue |-> queue, in_queue |-> in_queue, stats |-> stats]

\* StateExtendedSPFA.find_second_shortest up to the first loop test
SPFABegin ==
  /\ algo = "spfa"
  /\ Callable
  /\ \E q \in Queries :
       /\ ValidQuery(graph, q[1], q[2])
       /\ LET fr == SPFA_begin(graph, stats, q[1])
          IN /\ source' = q[1]
             /\ target' = q[2]
             /\ d1' = fr.d1
             /\ d2' = fr.d2
             /\ queue' = fr.queue
             /\ in_queue' = fr.in_queue
             /\ stats' = fr.stats
  /\ pc' = "loop"
  /\ result' = <<>>
  /\ reused' = (reused \/ pc = "returned")
  /\ hist' = HistBegin(graph, source')
  /\ UNCHANGED <<other, graph, algo, pq, broke, tie_free>>

\* one iteration of "while queue"
SPFAStep ==
  /\ algo = "spfa"
  /\ pc = "loop"
  /\ ~SPFA_loop_done(SPFAFrame)
  /\ stats.iterations < MaxIterations
  /\ LET fr == SPFA_iteration(graph, SPFAFrame)
     IN /\ d1' = fr.d1
        /\ d2' = fr.d2
        /\ queue' = fr.queue
        /\ in_queue' = fr.in_queue
        /\ stats' = fr.stats
  /\ hist' = HistCount(HistStep(hist, Head(queue), Head(queue)[1], Head(queue)[2],
                                Head(queue)[3], SPFA_relaxes(SPFAFrame),
                                SPFA_trace(graph, SPFAFrame)),
                       SPFA_trace(graph, SPFAFrame),
                       Len(queue') - (Len(queue) - 1),
                       IF SPFA_relaxes(SPFAFrame) THEN Len(graph[Head(queue)[1]]) ELSE 0)
  /\ UNCHANGED <<other, graph, algo, pc, source, target, pq, broke, result, tie_free,
                 reused>>

\* lines 132-141: the queue is empty, the pair is returned
SPFAReturn ==
  /\ algo = "spfa"
  /\ pc = "loop"
  /\ SPFA_loop_done(SPFAFrame)
  /\ result' = ResultOf(SPFAFrame, target)
  /\ pc' = "returned"
  /\ hist' = [hist EXCEPT !.last_stats = <<stats>>]
  /\ UNCHANGED <<other, graph, algo, source, target, d1, d2, pq, broke, queue,
                 in_queue, stats, tie_free, reused>>

Next ==
  \/ QueryInvalid
  \/ DijkstraBegin
  \/ DijkstraStep
  \/ DijkstraStepTie
  \/ DijkstraReturn
  \/ SPFABegin
  \/ SPFAStep
  \/ SPFAReturn

Spec == Init /\ [][Next]_vars

\* a call runs synchronously: once in the loop, the loop and the return proceed
Run == DijkstraStep \/ DijkstraStepTie \/ DijkstraReturn \/ SPFAStep \/ SPFAReturn

FairSpec == Spec /\ WF_vars(Run)

\* ------------------------------------------------ the graphs of the test suite
\* n of the complete_graph fixture
CompleteSize == 5
\* n of the chain_graph fixture
ChainSize == 10

\* for i in range(n): for j in range(i + 1, n): the edge [i, j], weight 1
RECURSIVE complete_edges(_, _, _)
complete_edges(i, j, n) ==
  IF i >= n THEN <<>>
  ELSE IF j >= n THEN complete_edges(i + 1, i + 2, n)
  ELSE <<<<i, j, 1>>>> \o complete_edges(i, j + 1, n)

\* the complete_graph fixture
complete_graph ==
  build_adjacency_list(complete_edges(0, 1, CompleteSize), FALSE,
                       [i \in 0 .. (CompleteSize - 1) |-> <<>>])

\* for i in range(n - 1): the edge [i, i + 1], weight 1, both ways
chain_graph ==
  build_adjacency_list([i \in 1 .. (ChainSize - 1) |-> <<i - 1, i, 1>>], FALSE,
                       [i \in 0 .. (ChainSize - 1) |-> <<>>])

\* a fresh instance over one of the two fixtures
ScenarioInit ==
  /\ graph \in {complete_graph, chain_graph}
  /\ algo \in {"dijkstra", "spfa"}
  /\ pc = "idle"
  /\ source = 0
  /\ target = 0
  /\ d1 = [v \in DOMAIN graph |-> INF]
  /\ d2 = [v \in DOMAIN graph |-> INF]
  /\ pq = <<>>
  /\ broke = FALSE
  /\ queue = <<>>
  /\ in_queue = [v \in DOMAIN graph |-> <<FALSE, FALSE>>]
  /\ stats = IF algo = "dijkstra" THEN DijkstraZero ELSE SPFAZero
  /\ result = <<>>
  /\ tie_free = TRUE
  /\ reused = FALSE
  /\ hist = HistZero(graph)
  /\ other = NoCall

\* algo.find_second_shortest(0, n - 1) of test_chain_graph / test_complete_graph
ScenarioDijkstraBegin ==
  /\ algo = "dijkstra"
  /\ pc = "idle"
  /\ ValidQuery(graph, 0, Cardinality(DOMAIN graph) - 1)
  /\ LET fr == Dijkstra_begin(graph, stats, 0)
     IN /\ source' = 0
        /\ target' = Cardinality(DOMAIN graph) - 1
        /\ d1' = fr.d1
        /\ d2' = fr.d2
        /\ pq' = fr.pq
        /\ broke' = fr.broke
        /\ stats' = fr.stats
  /\ pc' = "loop"
  /\ result' = <<>>
  /\ tie_free' = TRUE
  /\ hist' = HistBegin(graph, 0)
  /\ UNCHANGED <<other, graph, algo, queue, in_queue, reused>>

\* the same call on a StateExtendedSPFA instance
ScenarioSPFABegin ==
  /\ algo = "spfa"
  /\ pc = "idle"
  /\ ValidQuery(graph, 0, Cardinality(DOMAIN graph) - 1)
  /\ LET fr == SPFA_begin(graph, stats, 0)
     IN /\ source' = 0
        /\ target' = Cardinality(DOMAIN graph) - 1
        /\ d1' = fr.d1
        /\ d2' = fr.d2
        /\ queue' = fr.queue
        /\ in_queue' = fr.in_queue
        /\ stats' = fr.stats
  /\ pc' = "loop"
  /\ result' = <<>>
  /\ hist' = HistBegin(graph, 0)
  /\ UNCHANGED <<other, graph, algo, pq, broke, tie_free, reused>>

ScenarioNext ==
  \/ ScenarioDijkstraBegin
  \/ ScenarioSPFABegin
  \/ DijkstraStep
  \/ DijkstraStepTie
  \/ DijkstraReturn
  \/ SPFAStep
  \/ SPFAReturn

ScenarioSpec == ScenarioInit /\ [][ScenarioNext]_vars

\* ------------------------------------------------------- directed multigraphs
\* edges [u, v] with weights up to HeavyWeight
MultiEdges == {e \in Nodes \X Nodes \X (1 .. HeavyWeight) : e[1] # e[2]}

\* build_adjacency_list(edges, n, weights, directed=True) over lists of
\* ParallelEdges edges, parallel edges included
MultiGraphs ==
  {build_adjacency_list(es, TRUE, EmptyGraph) : es \in [1 .. ParallelEdges -> MultiEdges]}

\* a fresh StateExtendedSPFA instance over a directed multigraph
MultiInit ==
  /\ graph \in MultiGraphs
  /\ algo = "spfa"
  /\ pc = "idle"
  /\ source = 0
  /\ target = 0
  /\ d1 = [v \in Nodes |-> INF]
  /\ d2 = [v \in Nodes |-> INF]
  /\ pq = <<>>
  /\ broke = FALSE
  /\ queue = <<>>
  /\ in_queue = [v \in Nodes |-> <<FALSE, FALSE>>]
  /\ stats = SPFAZero
  /\ result = <<>>
  /\ tie_free = TRUE
  /\ reused = FALSE
  /\ hist = HistZero(graph)
  /\ other = NoCall

MultiNext ==
  \/ SPFABegin
  \/ SPFAStep
  \/ SPFAReturn

MultiSpec == MultiInit /\ [][MultiNext]_vars

\* ------------------------------------------- two calls on the same instance
\* d1, d2, pq, queue and in_queue are locals of find_second_shortest: each call
\* has its own; the counters are attributes of the instance: both calls write
\* the same ones. The calls interleave between loop iterations.

\* the second call's view in which the labels of the first call are its own
OtherDijkstraFrame_SharedLabels ==
  [d1 |-> d1, d2 |-> d2, pq |-> other.pq, stats |-> stats, broke |-> other.broke]

\* the second call's view: its locals and the counters of the instance
OtherDijkstraFrame ==
  [d1 |-> other.d1, d2 |-> other.d2, pq |-> other.pq, stats |-> stats, broke |-> other.broke]

OtherSPFAFrame ==
  [d1 |-> other.d1, d2 |-> other.d2, queue |-> other.queue,
   in_queue |-> other.in_queue, stats |-> stats]

\* the second call begins while the first is in flight: it resets the counters
\* of the instance and creates its own labels
OtherBegin ==
  /\ pc = "loop"
  /\ other.pc = "idle"
  /\ \E q \in Queries :
       /\ ValidQuery(graph, q[1], q[2])
       /\ IF algo = "dijkstra"
          THEN LET fr == Dijkstra_begin(graph, stats, q[1])
               IN /\ stats' = fr.stats
                  /\ other' = [NoCall EXCEPT !.pc = "loop", !.source = q[1], !.target = q[2],
                                             !.d1 = fr.d1, !.d2 = fr.d2, !.pq = fr.pq,
                                             !.broke = fr.broke]
          ELSE LET fr == SPFA_begin(graph, stats, q[1])
               IN /\ stats' = fr.stats
                  /\ other' = [NoCall EXCEPT !.pc = "loop", !.source = q[1], !.target = q[2],
                                             !.d1 = fr.d1, !.d2 = fr.d2, !.queue = fr.queue,
                                             !.in_queue = fr.in_queue]
  /\ UNCHANGED <<graph, algo, pc, source, target, d1, d2, pq, broke, queue,
                 in_queue, result, tie_free, reused, hist>>

OtherLoopDone ==
  IF algo = "dijkstra" THEN Dijkstra_loop_done(OtherDijkstraFrame)
  ELSE SPFA_loop_done(OtherSPFAFrame)

\* one loop iteration of the second call
OtherStep ==
  /\ other.pc = "loop"
  /\ ~OtherLoopDone
  /\ stats.iterations < MaxIterations
  /\ IF algo = "dijkstra"
     THEN LET fr == Dijkstra_iteration(graph, other.target, OtherDijkstraFrame, 1)
          IN /\ stats' = fr.stats
             /\ other' = [other EXCEPT !.d1 = fr.d1, !.d2 = fr.d2, !.pq = fr.pq,
                                       !.broke = fr.broke]
     ELSE LET fr == SPFA_iteration(graph, OtherSPFAFrame)
          IN /\ stats' = fr.stats
             /\ other' = [other EXCEPT !.d1 = fr.d1, !.d2 = fr.d2, !.queue = fr.queue,
                                       !.in_queue = fr.in_queue]
  /\ UNCHANGED <<graph, algo, pc, source, target, d1, d2, pq, broke, queue,
                 in_queue, result, tie_free, reused, hist>>

\* the second call returns its pair; get_statistics() then reads the counters
OtherReturn ==
  /\ other.pc = "loop"
  /\ OtherLoopDone
  /\ other' = [other EXCEPT !.pc = "returned",
                            !.result = ResultOf(other, other.target),
                            !.stats_seen = <<stats>>]
  /\ UNCHANGED <<graph, algo, pc, source, target, d1, d2, pq, broke, queue,
                 in_queue, stats, result, tie_free, reused, hist>>

\* the first call begins on a fresh instance
FirstBegin ==
  /\ pc = "idle"
  /\ (DijkstraBegin \/ SPFABegin)

ConcurrentNext ==
  \/ FirstBegin
  \/ DijkstraStep
  \/ DijkstraReturn
  \/ SPFAStep
  \/ SPFAReturn
  \/ OtherBegin
  \/ OtherStep
  \/ OtherReturn

ConcurrentSpec == Init /\ [][ConcurrentNext]_vars

\* ------------------------------------------------------- walks of the graph
\* no shortest or second-shortest walk has more than 2n - 1 edges
WalkBound == 2 * NumNodes * MaxWeight

\* pairs <<node, length>> of the walks from the pairs of S, lengths <= WalkBound
RECURSIVE WalkClosure(_, _)
WalkClosure(g, S) ==
  LET more == UNION {{<<g[p[1]][i][1], p[2] + g[p[1]][i][2]>> : i \in DOMAIN g[p[1]]} : p \in S}
      S2 == S \cup {q \in more : q[2] <= WalkBound}
  IN IF S2 = S THEN S ELSE WalkClosure(g, S2)

WalkLengths(g, s, t) == {p[2] : p \in {q \in WalkClosure(g, {<<s, 0>>}) : q[1] = t}}

Min(S) == CHOOSE x \in S : \A y \in S : x <= y

MinOrNone(S) == IF S = {} THEN None ELSE Min(S)

ShortestWalk(g, s, t) == MinOrNone(WalkLengths(g, s, t))

SecondWalk(g, s, t) ==
  LET L == WalkLengths(g, s, t)
  IN IF L = {} THEN None ELSE MinOrNone({l \in L : l > Min(L)})

ClosedWalk(g, s) == MinOrNone({l \in WalkLengths(g, s, s) : l > 0})

DijkstraAnswer == ResultOf(Dijkstra_find_second_shortest(graph, DijkstraZero, source, target), target)

SPFAAnswer == ResultOf(SPFA_find_second_shortest(graph, SPFAZero, source), target)

\* the indices a pop may take: the entries of least distance
PopChoices == {i \in 1 .. Len(pq) : pq[i][1] = pq[1][1]}

\* the frame traces of the iterations the instance can run next
NextTraces ==
  IF pc # "loop" THEN {}
  ELSE IF algo = "dijkstra"
  THEN IF Dijkstra_loop_done(DijkstraFrame) THEN {}
       ELSE {Dijkstra_trace(graph, target, DijkstraFrame, i) : i \in PopChoices}
  ELSE IF SPFA_loop_done(SPFAFrame) THEN {}
       ELSE {SPFA_trace(graph, SPFAFrame)}

\* whenever both labels of a node are finite d1 < d2, and d2 is finite only if d1 is
LabelInvariant(fr) ==
  \A v \in DOMAIN fr.d1 :
    /\ (fr.d1[v] # INF /\ fr.d2[v] # INF) => fr.d1[v] < fr.d2[v]
    /\ fr.d2[v] # INF => fr.d1[v] # INF

\* ------------------------------------------------------------------ claims
\* C1: for every graph and valid query the two algorithms return the same
\* (shortest, second_shortest) pair: what the instance returned is what the
\* other class returns for the same graph and query.
C1_CrossAlgorithmAgreement ==
  pc = "returned" => result = (IF algo = "spfa" THEN DijkstraAnswer ELSE SPFAAnswer)

\* C2: TwoDistanceDijkstra returns the least walk length from source to target
\* and the least walk length strictly above it (None when there is none).
C2_DijkstraCorrect ==
  (algo = "dijkstra" /\ pc = "returned" /\ tie_free)
    => result = <<ShortestWalk(graph, source, target), SecondWalk(graph, source, target)>>

C2_Witness ==
  /\ algo = "dijkstra"
  /\ pc = "returned"
  /\ tie_free
  /\ source # target
  /\ result[1] # None
  /\ result[2] # None
  /\ stats.iterations >= 4

\* C3: StateExtendedSPFA returns the least walk length from source to target
\* and the least walk length strictly above it (None when there is none).
C3_SPFACorrect ==
  (algo = "spfa" /\ pc = "returned")
    => result = <<ShortestWalk(graph, source, target), SecondWalk(graph, source, target)>>

\* C4: whenever both returned values are present, shortest < second_shortest.
C4_StrictOrdering ==
  (pc = "returned" /\ result[1] # None /\ result[2] # None) => result[1] < result[2]

C4_Witness ==
  /\ algo = "spfa"
  /\ pc = "returned"
  /\ result[1] # None
  /\ result[2] # None
  /\ result[1] > 0

\* C5: when no walk leads from source to target the call returns with both
\* values None.
C5_Unreachable ==
  (pc = "returned" /\ WalkLengths(graph, source, target) = {})
    => result = <<None, None>>

C5_Witness ==
  /\ pc = "returned"
  /\ WalkLengths(graph, source, target) = {}
  /\ graph[target] # <<>>
  /\ stats.iterations >= 1
  /\ result = <<None, None>>

\* C6: a call with source or target outside [0, n) raises, returns no
\* distances, and takes no search step: labels, queues and counters stay as
\* they were.
C6_InvalidQueryRaises ==
  [][(source' \notin Nodes \/ target' \notin Nodes)
       => /\ pc' = "raised"
          /\ result' = <<>>
          /\ UNCHANGED <<d1, d2, pq, broke, queue, in_queue, stats>>]_vars

C6_Witness ==
  /\ pc = "raised"
  /\ source \in Nodes
  /\ target \notin Nodes
  /\ stats.iterations > 0

\* C7: find_second_shortest(s, s) returns shortest 0 and, as second_shortest,
\* the length of the shortest closed walk of positive length through s
\* (None when there is none).
C7_ReflexiveQuery ==
  (pc = "returned" /\ source = target)
    => result = <<0, ClosedWalk(graph, source)>>

\* C8: after any sequence of queries the counters are those a fresh instance
\* reports after running the last query alone.
C8_StatisticsReset ==
  (pc = "returned" /\ tie_free)
    => stats = (IF algo = "dijkstra"
                THEN Dijkstra_find_second_shortest(graph, DijkstraZero, source, target).stats
                ELSE SPFA_find_second_shortest(graph, SPFAZero, source).stats)

C8_Witness ==
  /\ pc = "returned"
  /\ tie_free
  /\ reused
  /\ stats.iterations >= 3

\* C9: every query that has entered its main loop returns.
C9_Termination == (pc = "loop") ~> (pc = "returned")

C9_Witness ==
  /\ pc = "returned"
  /\ stats.iterations >= 5

\* C10: whatever entry of least distance each pop takes, TwoDistanceDijkstra
\* returns the pair it returns under heappop's own order.
C10_TieOrderIndependence ==
  (algo = "dijkstra" /\ pc = "returned") => result = DijkstraAnswer

C10_Witness ==
  /\ algo = "dijkstra"
  /\ pc = "returned"
  /\ ~tie_free
  /\ result[1] # None
  /\ result[2] # None

\* C11: on the complete graph on nodes 0..4, every edge of weight 1, the query
\* 0 -> 4 returns shortest 1 and second_shortest 2, from either class.
C11_CompleteGraph ==
  (pc = "returned" /\ graph = complete_graph) => result = <<1, 2>>

C11_Witness ==
  /\ pc = "returned"
  /\ graph = complete_graph
  /\ algo = "spfa"
  /\ source = 0
  /\ target = 4
  /\ stats.iterations >= 5

\* C12: on the chain 0-1-...-9, weight 1 per edge, the query 0 -> 9 returns
\* shortest 9 and a second_shortest that is present and above 9, from either
\* class.
C12_ChainGraph ==
  (pc = "returned" /\ graph = chain_graph)
    => /\ result[1] = 9
       /\ result[2] # None
       /\ result[2] > 9

C12_Witness ==
  /\ pc = "returned"
  /\ graph = chain_graph
  /\ algo = "dijkstra"
  /\ source = 0
  /\ target = 9
  /\ broke

\* C13: when a StateExtendedSPFA relaxation has improved the label of a
\* (node, rank) that was pending, the dequeue of that pending entry (which holds
\* a distance above the live label) relaxes the node's outgoing edges from the
\* live, improved label.
C13_PendingEntryFreshLabel ==
  [][SPFAStep =>
       LET e == Head(queue)
           u == e[1]
           live == IF e[3] THEN d2[u] ELSE d1[u]
           f1 == [SPFAFrame EXCEPT !.queue = Tail(@),
                                   !.stats.iterations = @ + 1,
                                   !.stats.dequeue_operations = @ + 1,
                                   !.stats.pop_count = @ + 1,
                                   !.in_queue[u][Slot(e[3])] = FALSE]
       IN live < e[2] => SPFAFrame' = SPFA_relax_all(f1, graph[u], live)]_vars

\* C14: in every state of a query, of either class, between loop iterations
\* and between the relaxations of one iteration, for every node v: if d1[v]
\* and d2[v] are both finite then d1[v] < d2[v], and d2[v] is finite only if
\* d1[v] is finite.
C14_LabelInvariant ==
  /\ LabelInvariant([d1 |-> d1, d2 |-> d2])
  /\ \A tr \in NextTraces : \A k \in DOMAIN tr : LabelInvariant(tr[k])

C14_Witness ==
  /\ pc = "loop"
  /\ \E v \in Nodes : d1[v] # INF /\ d2[v] # INF /\ Len(hist.settled[v][1]) = 0
  /\ \E tr \in NextTraces : \E k \in DOMAIN tr : k >= 1 /\ \E v \in Nodes : tr[k].d2[v] # d2[v]

\* the values d1[v] has held in the query up to frame k of the trace tr
SeenUpTo(tr, k, v) == hist.d1_seen[v] \cup ({tr[j].d1[v] : j \in 0 .. k} \ {INF})

\* C15: for every node v, no relaxation of either class assigns to d2[v] a
\* value equal to the current d1[v], nor a value that d1[v] held earlier in the
\* same query.
C15_NeverPrimaryValue ==
  \A tr \in NextTraces : \A k \in DOMAIN tr : \A v \in DOMAIN d1 :
    (k >= 1 /\ tr[k].d2[v] # tr[k - 1].d2[v])
      => tr[k].d2[v] \notin SeenUpTo(tr, k, v)

\* C15, amended: a relaxation that assigns d2[v] leaves d1[v] < d2[v], and the
\* assigned value is one d1[v] held earlier only when it is the value the same
\* relaxation displaced from d1[v] by a strictly smaller one (the demotion).
C15_OnlyDemotedPrimaryValue ==
  \A tr \in NextTraces : \A k \in DOMAIN tr : \A v \in DOMAIN d1 :
    (k >= 1 /\ tr[k].d2[v] # tr[k - 1].d2[v])
      => /\ tr[k].d1[v] < tr[k].d2[v]
         /\ tr[k].d2[v] \in SeenUpTo(tr, k, v)
              => (tr[k].d2[v] = tr[k - 1].d1[v] /\ tr[k].d1[v] < tr[k - 1].d1[v])

C15_Witness ==
  \E tr \in NextTraces : \E k \in DOMAIN tr : \E v \in DOMAIN d1 :
    /\ k >= 1
    /\ tr[k].d2[v] # tr[k - 1].d2[v]
    /\ tr[k].d2[v] = tr[k - 1].d1[v]
    /\ tr[k].d1[v] < tr[k - 1].d1[v]
    /\ tr[k].d2[v] \in SeenUpTo(tr, k, v)

\* C16: TwoDistanceDijkstra leaves its main loop early only on popping the
\* entry (d2[target], target, SECONDARY) with the live d2[target]; it never
\* stops on a (target, SECONDARY) entry whose distance is above d2[target].
C16_BreakOnLiveEntry ==
  (algo = "dijkstra" /\ pc \in {"loop", "returned"} /\ broke)
    => hist.popped = <<d2[target], target, TRUE>>

C16_Witness ==
  /\ algo = "dijkstra"
  /\ pc = "loop"
  /\ broke
  /\ \E j \in DOMAIN pq : pq[j][2] = target /\ pq[j][3] /\ pq[j][1] > d2[target]

\* a node id that is no node: a search for it never meets the early termination
NoNode == 0 - 1

\* the search resumed after its break: the popped entry is put back and the loop
\* runs until the heap is empty
DijkstraResumed ==
  Dijkstra_loop(graph, NoNode,
                [DijkstraFrame EXCEPT !.broke = FALSE, !.pq = heappush(@, hist.popped)])

\* C17: the pair TwoDistanceDijkstra returns after breaking on the
\* (target, SECONDARY) pop is the pair the same search returns when it ignores
\* the break and runs until the heap is empty: no later pop changes
\* d1[target] or d2[target].
C17_EarlyTerminationSound ==
  (algo = "dijkstra" /\ pc = "returned" /\ broke)
    => result = ResultOf(DijkstraResumed, target)

C17_Witness ==
  /\ algo = "dijkstra"
  /\ pc = "returned"
  /\ broke
  /\ pq # <<>>
  /\ DijkstraResumed.stats.edge_relaxations > stats.edge_relaxations

\* how often the entry e occurs in the sequence q
Count(q, e) == Cardinality({j \in DOMAIN q : q[j] = e})

\* the entries the iteration popping pq[i] pushes
Pushed(i) ==
  LET after == Dijkstra_iteration(graph, target, DijkstraFrame, i).pq
  IN {after[j] : j \in {n \in DOMAIN after : Count(after, after[n]) > Count(RemoveAt(pq, i), after[n])}}

\* C18: within a TwoDistanceDijkstra query the distances of successively
\* popped entries never decrease, and every entry pushed while a popped entry
\* is processed has a distance strictly above the popped distance.
C18_MonotonePopOrder ==
  (algo = "dijkstra" /\ pc = "loop" /\ ~Dijkstra_loop_done(DijkstraFrame))
    => \A i \in PopChoices :
         /\ hist.popped # <<>> => hist.popped[1] <= pq[i][1]
         /\ \A e \in Pushed(i) : e[1] > pq[i][1]

C18_Witness ==
  /\ algo = "dijkstra"
  /\ pc = "loop"
  /\ ~Dijkstra_loop_done(DijkstraFrame)
  /\ hist.popped # <<>>
  /\ hist.popped[1] > 0
  /\ \E i \in PopChoices : hist.popped[1] < pq[i][1] /\ Pushed(i) # {}

\* the live label of (v, rank)
Label(v, is_second) == IF is_second THEN d2[v] ELSE d1[v]

\* C19: in TwoDistanceDijkstra, once an entry of (node, rank) was popped
\* non-stale and the node's edges relaxed, the label of that (node, rank) stays
\* the popped distance for the rest of the query, and no (node, rank) has its
\* edges relaxed more than once.
C19_SettledNeverReopened ==
  (algo = "dijkstra" /\ pc \in {"loop", "returned"})
    => \A v \in DOMAIN d1 : \A is_second \in BOOLEAN :
         LET done == hist.settled[v][Slot(is_second)]
         IN /\ Len(done) <= 1
            /\ Len(done) = 1 => Label(v, is_second) = done[1]

C19_Witness ==
  /\ algo = "dijkstra"
  /\ pc = "returned"
  /\ \E v \in DOMAIN d1 : Len(hist.settled[v][1]) = 1 /\ Len(hist.settled[v][2]) = 1
  /\ \E j \in DOMAIN pq : pq[j][1] > Label(pq[j][2], pq[j][3])

\* the positions of the queue q that hold an entry of (v, rank)
EntriesOf(q, v, is_second) == {j \in DOMAIN q : q[j][1] = v /\ q[j][3] = is_second}

\* at most one entry per (node, rank), and the flag is set exactly when there is one
PendingFlagsExact(fr) ==
  \A v \in DOMAIN fr.in_queue : \A is_second \in BOOLEAN :
    /\ Cardinality(EntriesOf(fr.queue, v, is_second)) <= 1
    /\ fr.in_queue[v][Slot(is_second)] <=> (EntriesOf(fr.queue, v, is_second) # {})

\* C20: between the loop steps of StateExtendedSPFA the queue holds at most
\* one entry per (node, rank) and in_queue[node][rank] is true exactly when the
\* queue holds one; every dequeue, stale or not, has cleared the flag of the
\* dequeued pair before its staleness check.
C20_PendingFlagInvariant ==
  (algo = "spfa" /\ pc \in {"loop", "returned"})
    => /\ PendingFlagsExact(SPFAFrame)
       /\ \A tr \in NextTraces :
            /\ ~tr[0].in_queue[Head(queue)[1]][Slot(Head(queue)[3])]
            /\ PendingFlagsExact(tr[0])

C20_Witness ==
  /\ algo = "spfa"
  /\ pc = "loop"
  /\ Len(queue) >= 2
  /\ ~SPFA_relaxes(SPFAFrame)
  /\ \E v \in DOMAIN d1 : in_queue[v][1] /\ in_queue[v][2]

\* C21: StateExtendedSPFA has no early termination: a query returns only when
\* the FIFO queue is empty, so at return push_count = pop_count = iterations
\* (every entry enqueued was dequeued, one per iteration), also when
\* (target, SECONDARY) was dequeued earlier in the query.
C21_NoEarlyTermination ==
  (algo = "spfa" /\ pc = "returned")
    => /\ queue = <<>>
       /\ stats.push_count = stats.pop_count
       /\ stats.pop_count = stats.iterations
       /\ stats.push_count = hist.pushes
       /\ stats.pop_count = hist.pops

C21_Witness ==
  /\ algo = "spfa"
  /\ pc = "returned"
  /\ Len(hist.settled[target][2]) >= 1
  /\ ~(hist.popped[1] = target /\ hist.popped[3])
  /\ stats.iterations >= 4

\* C22: at return of a StateExtendedSPFA query, d1_updates is the number of
\* relaxations of the query that changed some d1[v], and d2_updates is the
\* number of relaxations that changed some d2[v] to a different finite value,
\* the changes made by demoting an old finite d1 included.
C22_UpdateCounters ==
  (algo = "spfa" /\ pc = "returned")
    => /\ stats.d1_updates = hist.d1_changes
       /\ stats.d2_updates = hist.d2_changes

\* the relaxation towards v with the distance new is one of the cases that must
\* leave the labels alone
NoLabelCase(before, v, new) ==
  new = before.d1[v] \/ new = before.d2[v] \/ new > before.d2[v]

\* the frame after differs from the frame before in the relaxation counter only
OnlyCounted(before, after) ==
  after = [before EXCEPT !.stats.edge_relaxations = @ + 1]

\* the relaxations of the trace tr, made from the distance dist along adj
NoEffectAlong(tr, adj, dist) ==
  \A k \in 1 .. Len(adj) :
    NoLabelCase(tr[k - 1], adj[k][1], dist + adj[k][2]) => OnlyCounted(tr[k - 1], tr[k])

\* C23: in both classes a relaxation with new = dist + w such that new = d1[v],
\* new = d2[v] or new > d2[v] changes no label, pushes no entry and sets no
\* pending flag; only the edge-relaxation counter is incremented. In particular
\* a walk of length exactly d1[v] never populates d2[v].
C23_NoLabelChangeFrame ==
  pc = "loop" =>
    IF algo = "dijkstra"
    THEN Dijkstra_loop_done(DijkstraFrame) \/
         \A i \in PopChoices :
           Dijkstra_relaxes(target, DijkstraFrame, i)
             => NoEffectAlong(Dijkstra_trace(graph, target, DijkstraFrame, i),
                              graph[pq[i][2]], pq[i][1])
    ELSE SPFA_loop_done(SPFAFrame) \/
         (SPFA_relaxes(SPFAFrame)
            => NoEffectAlong(SPFA_trace(graph, SPFAFrame),
                             graph[Head(queue)[1]], Head(queue)[2]))

\* a relaxation that arrives with exactly d1[v] while d2[v] is still infinite
C23_Witness ==
  /\ pc = "loop"
  /\ algo = "spfa"
  /\ ~SPFA_loop_done(SPFAFrame)
  /\ SPFA_relaxes(SPFAFrame)
  /\ LET tr == SPFA_trace(graph, SPFAFrame)
         adj == graph[Head(queue)[1]]
     IN \E k \in 1 .. Len(adj) :
          /\ Head(queue)[2] + adj[k][2] = tr[k - 1].d1[adj[k][1]]
          /\ tr[k - 1].d2[adj[k][1]] = INF
          /\ tr[k].stats.edge_relaxations = tr[k - 1].stats.edge_relaxations + 1

\* C25: when StateExtendedSPFA returns, the labels are a fixed point of the
\* relaxation rule: for every edge (u, v, w) and every finite label l of u,
\* new = l + w would change neither d1[v] nor d2[v], that is new >= d2[v] or
\* new = d1[v].
C25_FixedPointAtReturn ==
  (algo = "spfa" /\ pc = "returned")
    => \A u \in DOMAIN graph : \A k \in DOMAIN graph[u] : \A l \in {d1[u], d2[u]} \ {INF} :
         LET v == graph[u][k][1]
             new == l + graph[u][k][2]
         IN new >= d2[v] \/ new = d1[v]

\* the orderings of the entries of the adjacency list adj
Orderings(adj) ==
  {[k \in DOMAIN adj |-> adj[p[k]]] :
     p \in {q \in [DOMAIN adj -> DOMAIN adj] : \A a, b \in DOMAIN adj : q[a] = q[b] => a = b}}

\* the graphs that differ from g in the order inside the adjacency lists only
Reordered(g) == {h \in [DOMAIN g -> UNION {Orderings(g[v]) : v \in DOMAIN g}] :
                   \A v \in DOMAIN g : h[v] \in Orderings(g[v])}

\* C28: for a fixed graph and query StateExtendedSPFA returns the same
\* (shortest, second_shortest) pair for every permutation of the
\* (neighbour, weight) pairs inside each node's adjacency list.
C28_AdjacencyOrderIndependence ==
  (algo = "spfa" /\ pc = "returned")
    => \A h \in Reordered(graph) :
         result = ResultOf(SPFA_find_second_shortest(h, SPFAZero, source), target)

\* C29: a query rejected for an invalid source or target leaves the instance
\* unchanged: the validity check runs before the counter reset, so the
\* statistics after the failed call are the counters of the previous successful
\* call, or all zeros on a fresh instance.
C29_RejectedQueryKeepsCounters ==
  pc = "raised"
    => stats = (IF Len(hist.last_stats) = 0
                THEN (IF algo = "dijkstra" THEN DijkstraZero ELSE SPFAZero)
                ELSE hist.last_stats[1])

C29_Witness ==
  /\ pc = "raised"
  /\ Len(hist.last_stats) = 1
  /\ stats.iterations >= 2
  /\ stats.edge_relaxations >= 1

\* the number of entries popped non-stale whose node was expanded
RECURSIVE ExpandedIn(_)
ExpandedIn(S) ==
  IF S = {} THEN 0
  ELSE LET v == CHOOSE x \in S : TRUE
       IN Len(hist.settled[v][1]) + Len(hist.settled[v][2]) + ExpandedIn(S \ {v})

Expanded == ExpandedIn(DOMAIN hist.settled)

\* C30: at return of a TwoDistanceDijkstra query, iterations is the number of
\* heap pops, pq_operations is the number of heap pushes plus the number of
\* heap pops, the pops are at most the pushes, and edge_relaxations is the sum
\* of the out-degrees of the nodes of the entries popped non-stale, the
\* early-termination pop excluded.
C30_DijkstraCounterRelations ==
  (algo = "dijkstra" /\ pc = "returned")
    => /\ stats.iterations = hist.pops
       /\ stats.pq_operations = hist.pushes + hist.pops
       /\ hist.pops <= hist.pushes
       /\ stats.edge_relaxations = hist.degree_sum

\* a query that ended on the early-termination pop after a stale pop
C30_Witness ==
  /\ algo = "dijkstra"
  /\ pc = "returned"
  /\ broke
  /\ hist.pops < hist.pushes
  /\ hist.degree_sum >= 2
  /\ hist.pops > Expanded + 1

\* the distances from which the edges of (v, rank) were relaxed so far
RelaxedFrom(v, is_second) ==
  {hist.settled[v][Slot(is_second)][j] : j \in DOMAIN hist.settled[v][Slot(is_second)]}

\* C26: no lost work in TwoDistanceDijkstra: between loop steps, for every
\* (node, rank) whose label is finite and whose edges have not yet been relaxed
\* from that label value, the heap holds the entry (label, node, rank); and the
\* distance of every heap entry is at least the live label of its (node, rank).
C26_NoLostWork ==
  (algo = "dijkstra" /\ pc = "loop" /\ ~broke)
    => /\ \A v \in DOMAIN d1 : \A is_second \in BOOLEAN :
            (Label(v, is_second) # INF /\ Label(v, is_second) \notin RelaxedFrom(v, is_second))
              => \E j \in DOMAIN pq : pq[j] = <<Label(v, is_second), v, is_second>>
       /\ \A j \in DOMAIN pq : pq[j][1] >= Label(pq[j][2], pq[j][3])

\* a heap with a stale entry and the entry of a label still to be expanded
C26_Witness ==
  /\ algo = "dijkstra"
  /\ pc = "loop"
  /\ ~broke
  /\ \E j \in DOMAIN pq : pq[j][1] > Label(pq[j][2], pq[j][3])
  /\ \E v \in DOMAIN d1 : /\ d2[v] # INF
                          /\ d2[v] \notin RelaxedFrom(v, TRUE)
                          /\ d1[v] \in RelaxedFrom(v, FALSE)

\* every finite label is a walk length, and so is what was returned
SoundLabels ==
  pc \in {"loop", "returned"}
    => LET walks == WalkClosure(graph, {<<source, 0>>})
       IN /\ \A v \in DOMAIN d1 : \A l \in {d1[v], d2[v]} \ {INF} : <<v, l>> \in walks
          /\ pc = "returned"
               => /\ result[1] # None => result[1] >= ShortestWalk(graph, source, target)
                  /\ result[2] # None => <<target, result[2]>> \in walks

\* C27: in every state of a query of either class each finite d1[v] and each
\* finite d2[v] is the total weight of some walk from source to v in the graph,
\* so a returned shortest is never below the true shortest distance and a
\* returned second_shortest is the length of a real walk.
C27_LabelSoundness == []SoundLabels

\* an SPFA query that returned a second_shortest above the true one
C27_Witness ==
  /\ algo = "spfa"
  /\ pc = "returned"
  /\ result[2] # None
  /\ result[2] > SecondWalk(graph, source, target)
  /\ \E v \in DOMAIN d1 : v # target /\ d2[v] # INF

\* what the call (s, t) returns on an instance of its own
AloneResult(s, t) ==
  IF algo = "dijkstra"
  THEN ResultOf(Dijkstra_find_second_shortest(graph, DijkstraZero, s, t), t)
  ELSE ResultOf(SPFA_find_second_shortest(graph, SPFAZero, s), t)

\* the counters after the call (s, t) on an instance of its own
AloneStatistics(s, t) ==
  IF algo = "dijkstra"
  THEN Dijkstra_find_second_shortest(graph, DijkstraZero, s, t).stats
  ELSE SPFA_find_second_shortest(graph, SPFAZero, s).stats

\* each of the two calls returned the pair it returns alone
AloneDistances ==
  /\ pc = "returned" => result = AloneResult(source, target)
  /\ other.pc = "returned" => other.result = AloneResult(other.source, other.target)

\* C24: two overlapping calls on the same instance share no label and no
\* counter storage: each call returns the distances, and yields the
\* statistics, that it would have produced had it run alone.
C24_OverlappingCallsIndependent ==
  /\ AloneDistances
  /\ pc = "returned" => hist.last_stats[1] = AloneStatistics(source, target)
  /\ other.pc = "returned"
       => other.stats_seen[1] = AloneStatistics(other.source, other.target)

\* C24, amended: two overlapping calls on the same instance share no label,
\* heap, queue or pending-flag storage, and each returns the distances it
\* returns when it runs alone; the counters are shared by the two calls.
C24_OverlappingCallsSameDistances ==
  other.pc # "idle" => AloneDistances

\* both calls returned after interleaved iterations, with different sources,
\* and neither read the counters of its own run
C24_Witness ==
  /\ pc = "returned"
  /\ other.pc = "returned"
  /\ other.source # source
  /\ result[2] # None
  /\ other.result[2] # None
  /\ hist.last_stats[1] # AloneStatistics(source, target)
  /\ other.stats_seen[1] # AloneStatistics(other.source, other.target)
====
